---- MODULE Spec2Model ----
(***************************************************************************)
(* A model of the cv-analytics webhook receiver: the HTTP handler, the     *)
(* webhook processor (signature check, JSON decoding, field validation,    *)
(* storage write), the token bucket in front of it and the two storage     *)
(* repositories (Firestore set-by-id, Realtime Database push).             *)
(*                                                                         *)
(* Strings that the code inspects character by character (the signature    *)
(* header, the hex digest) are sequences of one-character strings; byte    *)
(* slices are sequences of numbers in 0..255.  The digest is a 16-bit      *)
(* stand-in for SHA-256, used inside the real HMAC construction.           *)
(***************************************************************************)
EXTENDS Integers, Sequences, FiniteSets, TLC

VARIABLES variant, secret, store, rtdb, tokens, now, pc, req, setOk, pre, resp, ran,
          delivered, arrivals, refilled, procs, arrivalOrder, writeOrder,
          environ, config, configErr, mu, callers, admitted, supplied

vars == <<variant, secret, store, rtdb, tokens, now, pc, req, setOk, pre, resp, ran,
          delivered, arrivals, refilled, procs, arrivalOrder, writeOrder,
          environ, config, configErr, mu, callers, admitted, supplied>>

\* the state of the requests that are handled one after the other, and the
\* state of the requests that are handled concurrently
serialVars == <<pc, req, setOk, pre, resp, ran, delivered, arrivals, refilled>>
concurrentVars == <<procs, arrivalOrder, writeOrder>>
\* the environment the process was started in and the configuration it loaded
startVars == <<environ, config, configErr>>
\* the mutex of the token bucket, the goroutines that call it, and the
\* tokens handed out and made available so far
limiterVars == <<mu, callers, admitted, supplied>>

(***************************************************************************)
(* Bounds of the model.                                                    *)
(***************************************************************************)
\* the clock (seconds, time.Now().Unix()) runs from 1 to MaxNow
MaxNow == 2
\* the Realtime Database list is explored up to MaxPush pushed children
MaxPush == 2
\* requests that follow a full token bucket are counted up to MaxArrivals
MaxArrivals == 22
\* the number of requests that are in the handler at the same time
NumProcs == 2

(***************************************************************************)
(* Bytes, hex and the keyed hash.                                          *)
(***************************************************************************)
RECURSIVE XorBits(_, _, _)
XorBits(a, b, n) ==
    IF n = 0 THEN 0
    ELSE (((a % 2) + (b % 2)) % 2) + 2 * XorBits(a \div 2, b \div 2, n - 1)

Xor(a, b) == XorBits(a, b, 8)

RECURSIVE DigestFold(_, _, _)
DigestFold(h, bytes, i) ==
    IF i > Len(bytes) THEN h
    ELSE DigestFold(((h * 33) + bytes[i]) % 65536, bytes, i + 1)

\* sha256.New + Write + Sum, reduced to a digest of two bytes
Digest(bytes) ==
    LET h == DigestFold(5381, bytes, 1)
    IN  <<h \div 256, h % 256>>

\* a key is zero-padded to the block size, two bytes for the stand-in digest
\* (keys here are never longer than it)
PadKey(key) == [i \in 1..2 |-> IF i <= Len(key) THEN key[i] ELSE 0]

\* hmac.New(h, key); mac.Write(payload); mac.Sum(nil)
HmacSum(key, payload) ==
    LET k     == PadKey(key)
        ipad  == [i \in 1..2 |-> Xor(k[i], 54)]
        opad  == [i \in 1..2 |-> Xor(k[i], 92)]
        inner == Digest(ipad \o payload)
    IN  Digest(opad \o inner)

HexDigits ==
    <<"0", "1", "2", "3", "4", "5", "6", "7", "8", "9", "a", "b", "c", "d", "e", "f">>

RECURSIVE HexEncodeToString(_)
\* hex.EncodeToString: two lowercase digits per byte
HexEncodeToString(bytes) ==
    IF bytes = <<>> THEN <<>>
    ELSE <<HexDigits[(Head(bytes) \div 16) + 1], HexDigits[(Head(bytes) % 16) + 1]>>
         \o HexEncodeToString(Tail(bytes))

\* a comparison that forgets the length check
HmacEqualNoLength(x, y) == \A i \in 1..Len(x) : i <= Len(y) /\ x[i] = y[i]

\* hmac.Equal / subtle.ConstantTimeCompare: equal length and no differing byte
HmacEqual(x, y) ==
    /\ Len(x) = Len(y)
    /\ \A i \in 1..Len(x) : x[i] = y[i]

(***************************************************************************)
(* JSON values and request bodies.  A body is what io.ReadAll hands to the *)
(* handler: a read error, bytes that are no JSON, or a JSON object given   *)
(* by its members (an absent member is absent from the object's domain).   *)
(***************************************************************************)
Str(x) == [t |-> "str", s |-> x, n |-> 0]
Num(x) == [t |-> "num", s |-> "", n |-> x]
Absent == [t |-> "absent", s |-> "", n |-> 0]

\* the members of a record that are present
Present(all) == [f \in {g \in DOMAIN all : all[g].t # "absent"} |-> all[f]]

EmptyObj == [f \in {} |-> Absent]

\* the "data" object; opt = "full" carries the six descriptive members
MkData(rid, q, ts, opt) ==
    Present([requestId     |-> rid,
             query         |-> q,
             matchType     |-> IF opt = "full" THEN Str("full") ELSE Absent,
             matchScore    |-> IF opt = "full" THEN Num(99) ELSE Absent,
             reasoning     |-> IF opt = "full" THEN Str("why") ELSE Absent,
             vectorMatches |-> IF opt = "full" THEN Num(5) ELSE Absent,
             sessionId     |-> IF opt = "full" THEN Str("sess") ELSE Absent,
             week          |-> IF opt = "full" THEN Str("W47") ELSE Absent,
             timestamp     |-> ts])

MkEnvelope(et, ts) == Present([eventType |-> Str(et), timestamp |-> Num(ts)])

JsonBody(env, hasData, data) ==
    [kind |-> "json", env |-> env, hasData |-> hasData, data |-> data]

MalformedBody == [kind |-> "malformed", env |-> EmptyObj, hasData |-> FALSE, data |-> EmptyObj]
ReadErrorBody == [kind |-> "readerr", env |-> EmptyObj, hasData |-> FALSE, data |-> EmptyObj]

\* an epoch time as the callers send it
T1 == 1700000000

EnvX == MkEnvelope("x", T1)
EnvY == MkEnvelope("y", T1 + 1)
\* an envelope whose timestamp does not decode into the int64 member
EnvBadTimestamp == Present([eventType |-> Str("x"), timestamp |-> Str("bad")])

\* every combination of empty / non-empty required members, and a second key
CoreBodies ==
    { JsonBody(EnvX, TRUE, MkData(Str(rid), Str(q), Num(ts), "full")) :
        rid \in {"", "req_1"}, q \in {"", "q"}, ts \in {0, T1} }
    \cup { JsonBody(EnvX, TRUE, MkData(Str("req_2"), Str("q"), Num(T1), "full")) }

\* other deliveries of req_1: another query without the descriptive members,
\* and the same record in another envelope
VariedBodies ==
    { JsonBody(EnvX, TRUE, MkData(Str("req_1"), Str("r"), Num(T1), "none")),
      JsonBody(EnvY, TRUE, MkData(Str("req_1"), Str("q"), Num(T1), "full")) }

\* a required member left out, the whole data object left out
PartialBodies ==
    { JsonBody(EnvX, TRUE, MkData(Absent, Str("q"), Num(T1), "full")),
      JsonBody(EnvX, TRUE, MkData(Str("req_1"), Absent, Num(T1), "full")),
      JsonBody(EnvX, TRUE, MkData(Str("req_1"), Str("q"), Absent, "full")),
      JsonBody(EnvX, FALSE, EmptyObj) }

\* a member of the wrong JSON type, bytes that are no JSON, a failed read
BrokenBodies ==
    { JsonBody(EnvX, TRUE, MkData(Str("req_1"), Str("q"), Str("bad"), "full")),
      JsonBody(EnvBadTimestamp, TRUE, MkData(Str("req_1"), Str("q"), Num(T1), "full")),
      MalformedBody,
      ReadErrorBody }

Bodies == CoreBodies \cup VariedBodies \cup PartialBodies \cup BrokenBodies

StrCode(x) ==
    CASE x = ""      -> 0
      [] x = "q"     -> 1
      [] x = "r"     -> 2
      [] x = "req_1" -> 3
      [] x = "req_2" -> 4
      [] x = "x"     -> 5
      [] x = "y"     -> 6
      [] x = "full"  -> 7
      [] x = "why"   -> 8
      [] x = "sess"  -> 9
      [] x = "W47"   -> 10
      [] OTHER       -> 255

MemberNames ==
    <<"eventType", "requestId", "query", "matchType", "matchScore", "reasoning",
      "vectorMatches", "sessionId", "week", "timestamp">>

\* a string by its code, a number by its four bytes
ValueBytes(v) ==
    IF v.t = "str" THEN <<1, StrCode(v.s)>>
    ELSE <<2, (v.n \div 16777216) % 256, (v.n \div 65536) % 256,
              (v.n \div 256) % 256, v.n % 256>>

RECURSIVE ObjBytes(_, _)
ObjBytes(obj, i) ==
    IF i > Len(MemberNames) THEN <<>>
    ELSE (IF MemberNames[i] \in DOMAIN obj
          THEN <<i>> \o ValueBytes(obj[MemberNames[i]])
          ELSE <<>>) \o ObjBytes(obj, i + 1)

\* the raw bytes of a body, the input of the keyed hash
Bytes(body) ==
    CASE body.kind = "readerr"   -> <<>>
      [] body.kind = "malformed" -> <<123, 105>>
      [] OTHER -> <<123>> \o ObjBytes(body.env, 1)
                  \o (IF body.hasData THEN <<100>> \o ObjBytes(body.data, 1) ELSE <<>>)
                  \o <<125>>

(***************************************************************************)
(* Decoding and validation.                                                *)
(***************************************************************************)
TypeOK(obj, f, t) == f \notin DOMAIN obj \/ obj[f].t = t
GetStr(obj, f) == IF f \in DOMAIN obj /\ obj[f].t = "str" THEN obj[f].s ELSE ""
GetNum(obj, f) == IF f \in DOMAIN obj /\ obj[f].t = "num" THEN obj[f].n ELSE 0

StringMembers == {"requestId", "query", "matchType", "reasoning", "sessionId", "week"}
NumberMembers == {"matchScore", "vectorMatches", "timestamp"}

\* the AnalyticsRecord struct: a member that is absent keeps its zero value
DecodeRecord(obj) ==
    [requestId     |-> GetStr(obj, "requestId"),
     query         |-> GetStr(obj, "query"),
     matchType     |-> GetStr(obj, "matchType"),
     matchScore    |-> GetNum(obj, "matchScore"),
     reasoning     |-> GetStr(obj, "reasoning"),
     vectorMatches |-> GetNum(obj, "vectorMatches"),
     sessionId     |-> GetStr(obj, "sessionId"),
     week          |-> GetStr(obj, "week"),
     timestamp     |-> GetNum(obj, "timestamp")]

\* a decoding that takes the timestamp of the record from the envelope
UnmarshalEnvelopeTime(body) ==
    LET ok == /\ body.kind = "json"
              /\ TypeOK(body.env, "eventType", "str")
              /\ TypeOK(body.env, "timestamp", "num")
              /\ \A f \in StringMembers : TypeOK(body.data, f, "str")
              /\ \A f \in NumberMembers : TypeOK(body.data, f, "num")
    IN  [err       |-> ~ok,
         EventType |-> GetStr(body.env, "eventType"),
         Timestamp |-> GetNum(body.env, "timestamp"),
         Data      |-> [DecodeRecord(body.data) EXCEPT
                          !.timestamp = GetNum(body.env, "timestamp")]]

\* json.Unmarshal(payload, &webhookPayload): an error for bytes that are no
\* JSON and for a member of the wrong type
Unmarshal(body) ==
    LET ok == /\ body.kind = "json"
              /\ TypeOK(body.env, "eventType", "str")
              /\ TypeOK(body.env, "timestamp", "num")
              /\ \A f \in StringMembers : TypeOK(body.data, f, "str")
              /\ \A f \in NumberMembers : TypeOK(body.data, f, "num")
    IN  [err       |-> ~ok,
         EventType |-> GetStr(body.env, "eventType"),
         Timestamp |-> GetNum(body.env, "timestamp"),
         Data      |-> DecodeRecord(body.data)]

\* a validation that checks the three members in the reverse order
validateTimestampFirst(record) ==
    IF record.timestamp = 0 THEN "timestamp is required"
    ELSE IF record.query = "" THEN "query is required"
    ELSE IF record.requestId = "" THEN "requestId is required"
    ELSE ""

\* a validation that forgets the timestamp
validateNoTimestamp(record) ==
    IF record.requestId = "" THEN "requestId is required"
    ELSE IF record.query = "" THEN "query is required"
    ELSE ""

\* the error of validateAnalyticsRecord, "" for nil
validateAnalyticsRecord(record) ==
    IF record.requestId = "" THEN "requestId is required"
    ELSE IF record.query = "" THEN "query is required"
    ELSE IF record.timestamp = 0 THEN "timestamp is required"
    ELSE ""

\* the configured WEBHOOK_SECRET (loadConfig rejects "") and a key the
\* deployment does not have
ConfiguredSecret == <<11, 7>>
ForeignSecret == <<42>>
Secrets == {ConfiguredSecret, ForeignSecret}

\* the payloads the model sends
Payloads == {Bytes(b) : b \in Bodies}

\* hex.EncodeToString(mac.Sum(nil)) for every key and payload, computed once
ExpectedTable ==
    [k \in Secrets |-> [p \in Payloads |-> HexEncodeToString(HmacSum(k, p))]]

\* expected := hex.EncodeToString(mac.Sum(nil))
Expected(key, payload) == ExpectedTable[key][payload]

\* a validator that accepts every signature that is not empty
ValidateAnyNonEmpty(key, payload, signature) == signature # <<>>

\* HMACValidator.Validate: TRUE for a nil error
Validate(key, payload, signature) == HmacEqual(signature, Expected(key, payload))

(***************************************************************************)
(* Storage repositories.                                                   *)
(***************************************************************************)
\* a map with two members mixed up
DocDataSwapped(record, receivedAt) ==
    [requestId     |-> record.requestId,
     query         |-> record.query,
     matchType     |-> record.matchType,
     matchScore    |-> record.vectorMatches,
     reasoning     |-> record.reasoning,
     vectorMatches |-> record.matchScore,
     sessionId     |-> record.sessionId,
     week          |-> record.week,
     timestamp     |-> record.timestamp,
     receivedAt    |-> receivedAt]

\* the map both repositories build from the record
DocData(record, receivedAt) ==
    [requestId     |-> record.requestId,
     query         |-> record.query,
     matchType     |-> record.matchType,
     matchScore    |-> record.matchScore,
     reasoning     |-> record.reasoning,
     vectorMatches |-> record.vectorMatches,
     sessionId     |-> record.sessionId,
     week          |-> record.week,
     timestamp     |-> record.timestamp,
     receivedAt    |-> receivedAt]

\* a write that merges: a member the new map leaves at its zero value keeps
\* the value the document had
DocSetMerge(coll, id, data) ==
    LET old == {d \in coll : d.id = id}
    IN  {d \in coll : d.id # id}
        \cup {[id   |-> id,
                data |-> IF old = {} THEN data
                         ELSE [f \in DOMAIN data |->
                                 IF data[f] = (IF f \in StringMembers THEN "" ELSE 0)
                                 THEN (CHOOSE d \in old : TRUE).data[f]
                                 ELSE data[f]]]}

\* a write that replaces the collection by the one document
DocSetAlone(coll, id, data) == {[id |-> id, data |-> data]}

\* a write that updates member by member and is overtaken: the query of the
\* document that was there survives
DocSetTorn(coll, id, data) ==
    LET old == {d \in coll : d.id = id}
    IN  {d \in coll : d.id # id}
        \cup {[id   |-> id,
                data |-> IF old = {} THEN data
                         ELSE [data EXCEPT !.query = (CHOOSE d \in old : TRUE).data.query]]}

\* a write that creates the document and leaves an existing one as it is
DocCreate(coll, id, data) ==
    IF \E d \in coll : d.id = id THEN coll ELSE coll \cup {[id |-> id, data |-> data]}

\* a write that adds a document and keeps the one that was there
DocSetAdd(coll, id, data) == coll \cup {[id |-> id, data |-> data]}

\* Collection("analytics").Doc(id).Set(ctx, data): the document with that id
\* is replaced as a whole, or created
DocSet(coll, id, data) ==
    {d \in coll : d.id # id} \cup {[id |-> id, data |-> data]}

\* a repository that files the document under the query
FirestoreWriteByQuery(coll, record, t, ok) ==
    LET data == DocData(record, t)
    IN  [written |-> <<[id |-> record.query, data |-> data]>>,
         coll    |-> IF ok THEN DocSet(coll, record.query, data) ELSE coll,
         err     |-> IF ok THEN "" ELSE "failed to write analytics to Firestore"]

\* FirestoreRepository.Write; ok is the backend's answer to the Set call
FirestoreWrite(coll, record, t, ok) ==
    LET data == DocData(record, t)
    IN  [written |-> <<[id |-> record.requestId, data |-> data]>>,
         coll    |-> IF ok THEN DocSet(coll, record.requestId, data) ELSE coll,
         err     |-> IF ok THEN "" ELSE "failed to write analytics to Firestore"]

\* a push that replaces the child holding the same requestId
RefPushByRequestId(list, data) ==
    IF \E i \in 1..Len(list) : list[i].data.requestId = data.requestId
    THEN [i \in 1..Len(list) |->
            IF list[i].data.requestId = data.requestId
            THEN [id |-> list[i].id, data |-> data]
            ELSE list[i]]
    ELSE Append(list, [id |-> Len(list) + 1, data |-> data])

\* NewRef("analytics/live").Push(ctx, data): a new child under a generated key
RefPush(list, data) == Append(list, [id |-> Len(list) + 1, data |-> data])

\* FirebaseRepository.Write; receivedAt is in milliseconds there
FirebaseWrite(list, record, t, ok) ==
    LET data == DocData(record, t * 1000)
    IN  [written |-> <<[id |-> "", data |-> data]>>,
         coll    |-> IF ok THEN RefPush(list, data) ELSE list,
         err     |-> IF ok THEN "" ELSE "failed to write analytics"]

(***************************************************************************)
(* The deployments: function.go (token bucket, Firestore), the single-file *)
(* variant without a token bucket (Firestore) and the package layout       *)
(* wired by main (internal/handlers, internal/services, Realtime Database).*)
(***************************************************************************)
Variants == {"function", "webhook", "main"}

HasRateLimiter(v) == v = "function"
UsesFirestore(v) == v # "main"

\* an error value: the message and the wrapped cause; NoError is nil
Err(msg, cause) == [msg |-> msg, cause |-> cause]
NoError == Err("", "")

\* a processor that wraps and returns the error without logging it
FailedSilent(st, steps, msg, logMsg, cause, written) ==
    [err       |-> Err(msg, cause),
     steps     |-> steps,
     errorLogs |-> <<>>,
     infoLogs  |-> <<>>,
     written   |-> written,
     store     |-> st.store,
     rtdb      |-> st.rtdb]

\* a processor that writes the success entry before it looks at the error
\* of the write
FailedSuccessLogged(st, steps, msg, logMsg, cause, written) ==
    [err       |-> Err(msg, cause),
     steps     |-> steps,
     errorLogs |-> <<Err(logMsg, cause)>>,
     infoLogs  |-> IF written = <<>> THEN <<>>
                   ELSE <<[msg |-> "webhook processed successfully",
                           requestId |-> written[1].data.requestId]>>,
     written   |-> written,
     store     |-> st.store,
     rtdb      |-> st.rtdb]

\* a processor that logs the failure and returns an error without its cause
FailedUnwrapped(st, steps, msg, logMsg, cause, written) ==
    [err       |-> Err(msg, ""),
     steps     |-> steps,
     errorLogs |-> <<Err(logMsg, cause)>>,
     infoLogs  |-> <<>>,
     written   |-> written,
     store     |-> st.store,
     rtdb      |-> st.rtdb]

\* what Process hands back when a step fails: the wrapped error, the one
\* Error log written at the point of detection, and the storage as it was
Failed(st, steps, msg, logMsg, cause, written) ==
    [err       |-> Err(msg, cause),
     steps     |-> steps,
     errorLogs |-> <<Err(logMsg, cause)>>,
     infoLogs  |-> <<>>,
     written   |-> written,
     store     |-> st.store,
     rtdb      |-> st.rtdb]

\* s.writer.Write of the deployment
WriterWrite(v, st, record, t, ok) ==
    IF UsesFirestore(v)
    THEN FirestoreWrite(st.store, record, t, ok)
    ELSE FirebaseWrite(st.rtdb, record, t, ok)

\* a pipeline that decodes the payload before it checks the signature
ProcessParseFirst(v, key, st, body, signature, t, ok) ==
    LET dec  == Unmarshal(body)
        verr == validateAnalyticsRecord(dec.Data)
        wr   == WriterWrite(v, st, dec.Data, t, ok)
    IN  IF dec.err
        THEN Failed(st, <<"Unmarshal">>,
                    "failed to parse webhook", "failed to parse webhook payload",
                    "json error", <<>>)
        ELSE IF ~Validate(key, Bytes(body), signature)
        THEN Failed(st, <<"Unmarshal", "Validate">>,
                    "webhook validation failed", "webhook validation failed",
                    "invalid signature", <<>>)
        ELSE IF verr # ""
        THEN Failed(st, <<"Unmarshal", "Validate", "validateAnalyticsRecord">>,
                    "invalid analytics record", "analytics record validation failed",
                    verr, <<>>)
        ELSE IF wr.err # ""
        THEN Failed(st, <<"Unmarshal", "Validate", "validateAnalyticsRecord", "Write">>,
                    "failed to store analytics", "failed to write analytics",
                    wr.err, wr.written)
        ELSE [err       |-> NoError,
              steps     |-> <<"Unmarshal", "Validate", "validateAnalyticsRecord", "Write">>,
              errorLogs |-> <<>>,
              infoLogs  |-> <<[msg |-> "webhook processed successfully",
                               requestId |-> dec.Data.requestId]>>,
              written   |-> wr.written,
              store     |-> IF UsesFirestore(v) THEN wr.coll ELSE st.store,
              rtdb      |-> IF UsesFirestore(v) THEN st.rtdb ELSE wr.coll]

\* WebhookService.Process on the storage state st = [store, rtdb]
Process(v, key, st, body, signature, t, ok) ==
    LET dec  == Unmarshal(body)
        verr == validateAnalyticsRecord(dec.Data)
        wr   == WriterWrite(v, st, dec.Data, t, ok)
    IN  IF ~Validate(key, Bytes(body), signature)
        THEN Failed(st, <<"Validate">>,
                    "webhook validation failed", "webhook validation failed",
                    "invalid signature", <<>>)
        ELSE IF dec.err
        THEN Failed(st, <<"Validate", "Unmarshal">>,
                    "failed to parse webhook", "failed to parse webhook payload",
                    "json error", <<>>)
        ELSE IF verr # ""
        THEN Failed(st, <<"Validate", "Unmarshal", "validateAnalyticsRecord">>,
                    "invalid analytics record", "analytics record validation failed",
                    verr, <<>>)
        ELSE IF wr.err # ""
        THEN Failed(st, <<"Validate", "Unmarshal", "validateAnalyticsRecord", "Write">>,
                    "failed to store analytics", "failed to write analytics",
                    wr.err, wr.written)
        ELSE [err       |-> NoError,
              steps     |-> <<"Validate", "Unmarshal", "validateAnalyticsRecord", "Write">>,
              errorLogs |-> <<>>,
              infoLogs  |-> <<[msg |-> "webhook processed successfully",
                               requestId |-> dec.Data.requestId]>>,
              written   |-> wr.written,
              store     |-> IF UsesFirestore(v) THEN wr.coll ELSE st.store,
              rtdb      |-> IF UsesFirestore(v) THEN st.rtdb ELSE wr.coll]

(***************************************************************************)
(* The token bucket.                                                       *)
(***************************************************************************)
\* NewRateLimiter(100, 20): tokens per second and burst
RatePerSecond == 100
Burst == 20

\* a limiter that checks for a token and does not take it
AllowWithoutTake(n) == [ok |-> n >= 1, tokens |-> n]

\* a limiter that lets a request through when the bucket is empty
AllowUnlimited(n) == [ok |-> TRUE, tokens |-> IF n >= 1 THEN n - 1 ELSE n]

\* a limiter that charges two tokens for a request
AllowTakesTwo(n) == [ok |-> n >= 1, tokens |-> IF n >= 2 THEN n - 2 ELSE 0]

\* RateLimiter.Allow: take a token when there is one
Allow(n) == [ok |-> n >= 1, tokens |-> IF n >= 1 THEN n - 1 ELSE n]

(***************************************************************************)
(* The HTTP handler.                                                       *)
(***************************************************************************)
Sha256Prefix == <<"s", "h", "a", "2", "5", "6", "=">>

HasPrefix(x, p) == Len(x) >= Len(p) /\ SubSeq(x, 1, Len(p)) = p

\* strings.TrimPrefix
TrimPrefix(x, p) == IF HasPrefix(x, p) THEN SubSeq(x, Len(p) + 1, Len(x)) ELSE x

\* a handler that passes the header value on as it came
SignatureOfRaw(v, header) == header

\* the signature the handler passes to Process
SignatureOf(v, header) == IF v = "function" THEN TrimPrefix(header, Sha256Prefix) ELSE header

TextPlain == "text/plain; charset=utf-8"

\* http.Error(w, msg, code)
HttpError(msg, code) ==
    [status |-> code, body |-> msg, contentType |-> TextPlain, retryAfter |-> ""]

\* a method check that lets every method through
MethodAny(m) == TRUE

\* r.Method != http.MethodPost
MethodAllowed(m) == m = "POST"

\* a handler that does not look for the header
MissingSignatureNever(header) == FALSE

\* signature == "" after r.Header.Get("X-Webhook-Signature")
MissingSignature(header) == header = <<>>

\* an answer that tells a storage failure from the others
ErrorResponseByKind(err) ==
    IF err.msg = "failed to store analytics"
    THEN HttpError("Failed to store webhook\n", 500)
    ELSE HttpError("Failed to process webhook\n", 401)

\* the answer to a request whose Process returned err
ErrorResponse(err) == HttpError("Failed to process webhook\n", 401)

\* a success answer without the Content-Type header set
SuccessResponseTextPlain ==
    [status      |-> 200,
     body        |-> "{\"success\":true,\"status\":\"ok\"}",
     contentType |-> TextPlain,
     retryAfter  |-> ""]

\* the answer to a request whose Process returned nil
SuccessResponse ==
    [status      |-> 200,
     body        |-> "{\"success\":true,\"status\":\"ok\"}",
     contentType |-> "application/json",
     retryAfter  |-> ""]

\* what a request did besides answering: the calls made and the logs written
Ran(steps, procCalled, procSig, procErr, errorLogs, infoLogs, written) ==
    [steps |-> steps, procCalled |-> procCalled, procSig |-> procSig, procErr |-> procErr,
     errorLogs |-> errorLogs, infoLogs |-> infoLogs, written |-> written]

\* WebhookHandler.ServeHTTP of deployment v on the state st = [store, rtdb, tokens]
Handle(v, key, st, r, t, ok) ==
    LET lim   == IF HasRateLimiter(v) THEN Allow(st.tokens) ELSE [ok |-> TRUE, tokens |-> st.tokens]
        first == IF HasRateLimiter(v) THEN <<"Allow">> ELSE <<>>
        sig   == SignatureOf(v, r.header)
        trim  == IF v = "function" THEN <<"TrimPrefix">> ELSE <<>>
        p     == Process(v, key, st, r.body, sig, t, ok)
        stop(answer, steps, errorLogs, infoLogs) ==
            [resp   |-> answer,
             ran    |-> Ran(steps, FALSE, <<>>, NoError, errorLogs, infoLogs, <<>>),
             store  |-> st.store,
             rtdb   |-> st.rtdb,
             tokens |-> lim.tokens]
    IN  IF ~lim.ok
        THEN stop([HttpError("Rate limit exceeded\n", 429) EXCEPT !.retryAfter = "1"],
                  first, <<>>, <<[msg |-> "rate limit exceeded", requestId |-> ""]>>)
        ELSE IF ~MethodAllowed(r.method)
        THEN stop(HttpError("Method not allowed\n", 405), first \o <<"Method">>, <<>>, <<>>)
        ELSE IF r.body.kind = "readerr"
        THEN stop(HttpError("Failed to read body\n", 400),
                  first \o <<"Method", "ReadAll">>,
                  <<Err("failed to read request body", "read error")>>, <<>>)
        ELSE IF MissingSignature(r.header)
        THEN stop(HttpError("Missing X-Webhook-Signature header\n", 400),
                  first \o <<"Method", "ReadAll", "Header">>, <<>>,
                  <<[msg |-> "missing webhook signature header", requestId |-> ""]>>)
        ELSE [resp   |-> IF p.err # NoError THEN ErrorResponse(p.err) ELSE SuccessResponse,
              ran    |-> Ran(first \o <<"Method", "ReadAll", "Header">> \o trim
                               \o <<"Process">> \o p.steps,
                             TRUE, sig, p.err,
                             IF p.err # NoError
                             THEN p.errorLogs \o <<Err("failed to process webhook", p.err.msg)>>
                             ELSE <<>>,
                             p.infoLogs, p.written),
              store  |-> p.store,
              rtdb   |-> p.rtdb,
              tokens |-> lim.tokens]

(***************************************************************************)
(* Configuration from the environment.  A variable that is unset reads as  *)
(* the empty string; the secret is a key, <<>> when empty.                 *)
(***************************************************************************)
getEnvOrDefault(value, defaultValue) == IF value # "" THEN value ELSE defaultValue

NoConfig ==
    [WebhookSecret |-> <<>>, FirebaseProjectID |-> "", FirebaseDatabaseURL |-> "",
     Port |-> "", Environment |-> ""]

\* config.LoadConfig of internal/config, used by main
LoadConfig(e) ==
    LET cfg == [WebhookSecret       |-> e.WEBHOOK_SECRET,
                FirebaseProjectID   |-> e.FIREBASE_PROJECT_ID,
                FirebaseDatabaseURL |-> e.FIREBASE_DATABASE_URL,
                Port                |-> getEnvOrDefault(e.PORT, "8080"),
                Environment         |-> getEnvOrDefault(e.ENVIRONMENT, "development")]
    IN  IF cfg.WebhookSecret = <<>>
        THEN [cfg |-> NoConfig, err |-> "WEBHOOK_SECRET environment variable is required"]
        ELSE IF cfg.FirebaseDatabaseURL = ""
        THEN [cfg |-> NoConfig,
              err |-> "FIREBASE_DATABASE_URL environment variable is required"]
        ELSE [cfg |-> cfg, err |-> ""]

\* loadConfig of function.go and of the single-file variant: a Config of two
\* fields
loadConfig(e) ==
    LET cfg == [NoConfig EXCEPT !.WebhookSecret = e.WEBHOOK_SECRET,
                                !.Environment = getEnvOrDefault(e.ENVIRONMENT, "production")]
    IN  IF cfg.WebhookSecret = <<>>
        THEN [cfg |-> NoConfig, err |-> "WEBHOOK_SECRET environment variable is required"]
        ELSE [cfg |-> cfg, err |-> ""]

\* the loader that init of the deployment calls
ConfigOf(v, e) == IF v = "main" THEN LoadConfig(e) ELSE loadConfig(e)

\* the environments a process may be started in
Environments ==
    [WEBHOOK_SECRET        : {<<>>} \cup Secrets,
     FIREBASE_PROJECT_ID   : {"", "cv-analytics-dashboard"},
     FIREBASE_DATABASE_URL : {"", "https://db"},
     PORT                  : {"", "9090"},
     ENVIRONMENT           : {"", "staging"}]

\* the environment of a deployment that came up and serves requests
DeployedEnv(v) ==
    [WEBHOOK_SECRET        |-> ConfiguredSecret,
     FIREBASE_PROJECT_ID   |-> "",
     FIREBASE_DATABASE_URL |-> IF v = "main" THEN "https://db" ELSE "",
     PORT                  |-> "",
     ENVIRONMENT           |-> ""]

(***************************************************************************)
(* Requests.                                                               *)
(***************************************************************************)
UpperChar(c) ==
    CASE c = "a" -> "A" [] c = "b" -> "B" [] c = "c" -> "C"
      [] c = "d" -> "D" [] c = "e" -> "E" [] c = "f" -> "F" [] OTHER -> c

ToUpper(x) == [i \in 1..Len(x) |-> UpperChar(x[i])]

\* the hex HMAC of a body under a key, as the sender computes it
HmacHex(key, body) == Expected(key, Bytes(body))

\* values of the X-Webhook-Signature header a caller may send with a body;
\* <<>> is the header left out (Header.Get returns "")
Headers(key, body) ==
    LET hex == HmacHex(key, body)
    IN  { <<>>,
          hex,
          Sha256Prefix \o hex,
          ToUpper(hex),
          HmacHex(ForeignSecret, body),
          SubSeq(hex, 1, Len(hex) - 1),
          Sha256Prefix }

Methods == {"POST", "GET"}

\* a well-formed and valid delivery
ValidBody == JsonBody(EnvX, TRUE, MkData(Str("req_1"), Str("q"), Num(T1), "full"))

\* the payload of the documented manual test: envelope, requestId, query
\* and the descriptive members, no data.timestamp
ManualTestBody == JsonBody(EnvX, TRUE, MkData(Str("req_1"), Str("q"), Absent, "full"))

\* the requests a caller may send to a deployment configured with key
RequestsTable ==
    [k \in {ConfiguredSecret} |->
        UNION { { [method |-> m, header |-> h, body |-> b] :
                    m \in Methods, h \in Headers(k, b) } : b \in Bodies }]

Requests(key) == RequestsTable[key]

NoRequest == [method |-> "", header |-> <<>>, body |-> ReadErrorBody]
NoResponse == [status |-> 0, body |-> "", contentType |-> "", retryAfter |-> ""]
NoRun == Ran(<<>>, FALSE, <<>>, NoError, <<>>, <<>>, <<>>)
NoPre == [store |-> {}, rtdb |-> <<>>, tokens |-> 0]

\* the goroutines that serve requests at the same time; a goroutine that has
\* no request yet
Procs == 1..NumProcs
NoDoc == [id |-> "", data |-> EmptyObj]
IdleProc == [pc |-> "idle", req |-> NoRequest, doc |-> NoDoc, resp |-> NoResponse]
\* a goroutine that is not in RateLimiter.Allow; res is what its last call
\* returned
IdleCaller == [pc |-> "idle", seen |-> 0, gain |-> 0, res |-> ""]

(***************************************************************************)
(* The state machine: a deployment serves one request after the other.     *)
(* delivered is a history variable: for every requestId the record of the  *)
(* last delivery that was answered 200, as the caller sent it.  arrivals   *)
(* and refilled are history variables of the token bucket: the number of   *)
(* requests received since the bucket was last full, counted as long as no *)
(* token has been added, and whether a token has been added since then.    *)
(***************************************************************************)
Delivered(hist, record) ==
    {h \in hist : h.id # record.requestId} \cup {[id |-> record.requestId, rec |-> record]}

Init ==
    /\ variant \in Variants
    /\ secret = ConfiguredSecret
    /\ store = {}
    /\ rtdb = <<>>
    /\ tokens = IF HasRateLimiter(variant) THEN Burst ELSE 0
    /\ now = 1
    /\ pc = "idle"
    /\ req = NoRequest
    /\ setOk = TRUE
    /\ pre = NoPre
    /\ resp = NoResponse
    /\ ran = NoRun
    /\ delivered = {}
    /\ arrivals = 0
    /\ refilled = FALSE
    /\ procs = [p \in Procs |-> IdleProc]
    /\ arrivalOrder = <<>>
    /\ writeOrder = <<>>
    /\ environ = DeployedEnv(variant)
    /\ config = ConfigOf(variant, environ).cfg
    /\ configErr = ""
    /\ mu = 0
    /\ callers = [p \in Procs |-> IdleCaller]
    /\ admitted = 0
    /\ supplied = tokens

\* one request is handled from its arrival to its response; the answer of
\* the storage backend is an input only when the write is attempted
ServeHTTP ==
    /\ pc = "idle"
    /\ UsesFirestore(variant) \/ Len(rtdb) < MaxPush
    /\ (HasRateLimiter(variant) /\ ~refilled) => arrivals < MaxArrivals
    /\ \E r \in Requests(secret), ok \in BOOLEAN :
         \E out \in {Handle(variant, secret, [store |-> store, rtdb |-> rtdb,
                                               tokens |-> tokens], r, now, ok)} :
             /\ ok \/ out.ran.written # <<>>
             /\ req' = r
             /\ setOk' = ok
             /\ pre' = [store |-> store, rtdb |-> rtdb, tokens |-> tokens]
             /\ resp' = out.resp
             /\ ran' = out.ran
             /\ store' = out.store
             /\ rtdb' = out.rtdb
             /\ tokens' = out.tokens
             /\ delivered' = IF out.resp.status = 200
                              THEN Delivered(delivered, Unmarshal(r.body).Data)
                              ELSE delivered
    /\ pc' = "served"
    /\ arrivals' = IF HasRateLimiter(variant) /\ ~refilled THEN arrivals + 1 ELSE arrivals
    /\ UNCHANGED <<variant, secret, now, refilled>>
    /\ UNCHANGED concurrentVars
    /\ UNCHANGED startVars
    /\ UNCHANGED limiterVars

\* the handler has returned: nothing of the request is kept
Finish ==
    /\ pc = "served"
    /\ pc' = "idle"
    /\ req' = NoRequest
    /\ setOk' = TRUE
    /\ pre' = NoPre
    /\ resp' = NoResponse
    /\ ran' = NoRun
    /\ UNCHANGED <<variant, secret, store, rtdb, tokens, now, delivered, arrivals, refilled>>
    /\ UNCHANGED concurrentVars
    /\ UNCHANGED startVars
    /\ UNCHANGED limiterVars

Min(a, b) == IF a <= b THEN a ELSE b

\* 10 ms pass after the bucket ran empty: it gains a hundredth of the rate
\* (a longer wait is a Tick)
Refill ==
    /\ pc = "idle"
    /\ HasRateLimiter(variant)
    /\ tokens = 0
    /\ tokens' = Min(Burst, tokens + (RatePerSecond \div 100))
    /\ refilled' = (tokens' < Burst)
    /\ arrivals' = 0
    /\ UNCHANGED <<variant, secret, store, rtdb, now, pc, req, setOk, pre, resp, ran,
                   delivered>>
    /\ UNCHANGED concurrentVars
    /\ UNCHANGED startVars
    /\ UNCHANGED limiterVars

\* a second passes: the clock advances and the bucket gains the rate, up to
\* the burst
Tick ==
    /\ pc = "idle"
    /\ now < MaxNow
    /\ now' = now + 1
    /\ tokens' = IF HasRateLimiter(variant) THEN Min(Burst, tokens + RatePerSecond) ELSE tokens
    /\ refilled' = (HasRateLimiter(variant) /\ tokens' < Burst)
    /\ arrivals' = 0
    /\ UNCHANGED <<variant, secret, store, rtdb, pc, req, setOk, pre, resp, ran, delivered>>
    /\ UNCHANGED concurrentVars
    /\ UNCHANGED startVars
    /\ UNCHANGED limiterVars

Next == ServeHTTP \/ Finish \/ Refill \/ Tick

Spec == Init /\ [][Next]_vars

(***************************************************************************)
(* The same deployments with NumProcs requests in the handler at the same  *)
(* time, one goroutine each.  The handler touches shared state at three     *)
(* points: the token bucket (under its mutex), the clock read by Write,    *)
(* and the storage backend, which applies one Set or Push at a time.       *)
(* Everything between these points is local to the goroutine.              *)
(* arrivalOrder and writeOrder are history variables: the goroutines in    *)
(* the order their requests arrived and in the order their writes were     *)
(* applied.                                                                *)
(***************************************************************************)
\* two deliveries of req_1 with different members
ConcurrentBodies ==
    { ValidBody,
      JsonBody(EnvX, TRUE, MkData(Str("req_1"), Str("r"), Num(T1), "none")) }

\* these deliveries correctly signed, and one signed with a foreign key
ConcurrentRequests ==
    { [method |-> "POST", header |-> HmacHex(ConfiguredSecret, b), body |-> b] :
        b \in ConcurrentBodies }
    \cup { [method |-> "POST", header |-> HmacHex(ForeignSecret, ValidBody),
             body |-> ValidBody] }

\* the bucket is full, or earlier requests have left one token
ConcInit ==
    /\ variant \in Variants
    /\ secret = ConfiguredSecret
    /\ store = {}
    /\ rtdb = <<>>
    /\ tokens \in (IF HasRateLimiter(variant) THEN {1, Burst} ELSE {0})
    /\ now = 1
    /\ pc = "idle"
    /\ req = NoRequest
    /\ setOk = TRUE
    /\ pre = NoPre
    /\ resp = NoResponse
    /\ ran = NoRun
    /\ delivered = {}
    /\ arrivals = 0
    /\ refilled = FALSE
    /\ procs = [p \in Procs |-> IdleProc]
    /\ arrivalOrder = <<>>
    /\ writeOrder = <<>>
    /\ environ = DeployedEnv(variant)
    /\ config = ConfigOf(variant, environ).cfg
    /\ configErr = ""
    /\ mu = 0
    /\ callers = [p \in Procs |-> IdleCaller]
    /\ admitted = 0
    /\ supplied = tokens

\* a request arrives and a goroutine starts to serve it: the handler asks
\* the token bucket, under the bucket's mutex; without a token the request
\* is answered 429
Arrive(p) ==
    /\ procs[p].pc = "idle"
    /\ \E r \in ConcurrentRequests :
         \E out \in {Handle(variant, secret, [store |-> store, rtdb |-> rtdb,
                                               tokens |-> tokens], r, now, TRUE)} :
             /\ tokens' = out.tokens
             /\ procs' = [procs EXCEPT ![p] =
                            IF out.resp.status = 429
                            THEN [@ EXCEPT !.pc = "done", !.req = r, !.resp = out.resp]
                            ELSE [@ EXCEPT !.pc = "admitted", !.req = r]]
    /\ arrivalOrder' = Append(arrivalOrder, p)
    /\ UNCHANGED <<variant, secret, store, rtdb, now, writeOrder>>
    /\ UNCHANGED serialVars
    /\ UNCHANGED startVars
    /\ UNCHANGED limiterVars

\* the admitted request runs up to the storage call: method, body, header,
\* signature, decoding, validation, and the document Write builds with the
\* clock's time; a request that fails on the way is answered
Prepare(p) ==
    /\ procs[p].pc = "admitted"
    /\ \E out \in {Handle(variant, secret, [store |-> store, rtdb |-> rtdb,
                                           tokens |-> Burst], procs[p].req, now, TRUE)} :
         procs' = [procs EXCEPT ![p] =
                     IF out.ran.written = <<>>
                     THEN [@ EXCEPT !.pc = "done", !.resp = out.resp]
                     ELSE [@ EXCEPT !.pc = "ready", !.doc = out.ran.written[1]]]
    /\ UNCHANGED <<variant, secret, store, rtdb, tokens, now, arrivalOrder, writeOrder>>
    /\ UNCHANGED serialVars
    /\ UNCHANGED startVars
    /\ UNCHANGED limiterVars

\* the storage backend applies the Set or the Push of the goroutine, or
\* fails, and the request is answered
StorageWrite(p) ==
    /\ procs[p].pc = "ready"
    /\ \E ok \in BOOLEAN :
         /\ store' = IF ok /\ UsesFirestore(variant)
                      THEN DocSet(store, procs[p].doc.id, procs[p].doc.data)
                      ELSE store
         /\ rtdb' = IF ok /\ ~UsesFirestore(variant)
                     THEN RefPush(rtdb, procs[p].doc.data)
                     ELSE rtdb
         /\ writeOrder' = IF ok THEN Append(writeOrder, p) ELSE writeOrder
         /\ procs' = [procs EXCEPT ![p] =
                        [@ EXCEPT !.pc = "done",
                                  !.resp = IF ok
                                           THEN SuccessResponse
                                           ELSE ErrorResponse(Err("failed to store analytics",
                                                                  "write failed"))]]
    /\ UNCHANGED <<variant, secret, tokens, now, arrivalOrder>>
    /\ UNCHANGED serialVars
    /\ UNCHANGED startVars
    /\ UNCHANGED limiterVars

ConcNext ==
    \/ \E p \in Procs : Arrive(p) \/ Prepare(p) \/ StorageWrite(p)
    \/ Tick

ConcSpec == ConcInit /\ [][ConcNext]_vars

(***************************************************************************)
(* Start of the process: init loads the configuration from the environment *)
(* and, when that succeeds, builds the handler; otherwise log.Fatalf ends   *)
(* the process.                                                            *)
(***************************************************************************)
StartInit ==
    /\ variant \in Variants
    /\ environ \in Environments
    /\ config = NoConfig
    /\ configErr = ""
    /\ secret = <<>>
    /\ store = {}
    /\ rtdb = <<>>
    /\ tokens = 0
    /\ now = 1
    /\ pc = "start"
    /\ req = NoRequest
    /\ setOk = TRUE
    /\ pre = NoPre
    /\ resp = NoResponse
    /\ ran = NoRun
    /\ delivered = {}
    /\ arrivals = 0
    /\ refilled = FALSE
    /\ procs = [p \in Procs |-> IdleProc]
    /\ arrivalOrder = <<>>
    /\ writeOrder = <<>>
    /\ mu = 0
    /\ callers = [p \in Procs |-> IdleCaller]
    /\ admitted = 0
    /\ supplied = tokens

\* init: load the configuration, then initializeHandler
Start ==
    /\ pc = "start"
    /\ \E c \in {ConfigOf(variant, environ)} :
         /\ configErr' = c.err
         /\ config' = c.cfg
         /\ pc' = IF c.err # "" THEN "fatal" ELSE "idle"
         /\ secret' = IF c.err # "" THEN secret ELSE c.cfg.WebhookSecret
         /\ tokens' = IF c.err = "" /\ HasRateLimiter(variant) THEN Burst ELSE tokens
    /\ UNCHANGED <<variant, store, rtdb, now, req, setOk, pre, resp, ran, delivered,
                   arrivals, refilled, environ>>
    /\ UNCHANGED concurrentVars
    /\ UNCHANGED limiterVars

StartNext == Start

StartSpec == StartInit /\ [][StartNext]_vars

(***************************************************************************)
(* The token bucket called by NumProcs goroutines at the same time.        *)
(* RateLimiter.Allow locks the mutex, calls the limiter and unlocks on     *)
(* return.  The limiter's call is taken as two steps, the check (it reads  *)
(* the tokens, with what the elapsed time adds to an empty bucket) and the *)
(* take (it writes them back, one less when there was one), so that only   *)
(* the mutex keeps two calls apart.  admitted counts the calls that        *)
(* returned true, supplied the tokens made available: those of the full    *)
(* bucket and those added since.                                           *)
(***************************************************************************)
\* a mutex that does not exclude
MutexAlwaysFree(holder) == TRUE

\* rl.mu.Lock() returns when no goroutine holds the mutex
MutexFree(holder) == holder = 0

LimiterInit == Init /\ HasRateLimiter(variant)

\* rl.mu.Lock()
Lock(p) ==
    /\ callers[p].pc = "idle"
    /\ admitted < MaxArrivals
    /\ MutexFree(mu)
    /\ mu' = p
    /\ callers' = [callers EXCEPT ![p] = [IdleCaller EXCEPT !.pc = "locked"]]
    /\ UNCHANGED <<tokens, admitted, supplied>>

\* rl.limiter.Allow(), first half: the tokens there are now
Check(p) ==
    /\ callers[p].pc = "locked"
    /\ \E g \in (IF tokens = 0 THEN {0, RatePerSecond \div 100} ELSE {0}) :
         callers' = [callers EXCEPT ![p] = [pc |-> "checked", seen |-> tokens + g,
                                            gain |-> g, res |-> ""]]
    /\ UNCHANGED <<tokens, mu, admitted, supplied>>

\* rl.limiter.Allow(), second half: one token is taken when there was one
Take(p) ==
    /\ callers[p].pc = "checked"
    /\ \E a \in {Allow(callers[p].seen)} :
         /\ tokens' = a.tokens
         /\ admitted' = IF a.ok THEN admitted + 1 ELSE admitted
         /\ supplied' = IF a.ok THEN supplied + callers[p].gain ELSE supplied
         /\ callers' = [callers EXCEPT ![p] =
                          [pc |-> "taken", seen |-> 0, gain |-> 0,
                           res |-> IF a.ok THEN "admitted" ELSE "rejected"]]
    /\ UNCHANGED mu

\* the deferred rl.mu.Unlock(); Allow returns res
Unlock(p) ==
    /\ callers[p].pc = "taken"
    /\ mu' = 0
    /\ callers' = [callers EXCEPT ![p].pc = "idle"]
    /\ UNCHANGED <<tokens, admitted, supplied>>

LimiterNext ==
    /\ \E p \in Procs : Lock(p) \/ Check(p) \/ Take(p) \/ Unlock(p)
    /\ UNCHANGED <<variant, secret, store, rtdb, now>>
    /\ UNCHANGED serialVars
    /\ UNCHANGED concurrentVars
    /\ UNCHANGED startVars

LimiterSpec == LimiterInit /\ [][LimiterNext]_vars

(***************************************************************************)
(* Properties.  They speak of the state in which a request has just been   *)
(* served: req is the request, pre the state it met, resp and ran what the  *)
(* handler answered and did, store / rtdb / tokens the state it left.      *)
(***************************************************************************)
Served == pc = "served"

\* the hex HMAC of the served body under the configured secret, recomputed
HexOfBody == HexEncodeToString(HmacSum(secret, Bytes(req.body)))

\* the signature a holder of the configured secret sends with the served body
SignedHex == HmacHex(secret, req.body)

LowerHexDigits == {HexDigits[i] : i \in 1..16}
IsLowerHex(x) == \A i \in 1..Len(x) : x[i] \in LowerHexDigits

\* what Validate compares the signature with is the lowercase hex encoding
\* of the HMAC of the payload, for every key and every body
ExpectedIsHmacHex ==
    \A k \in Secrets, b \in Bodies :
        /\ Expected(k, Bytes(b)) = HexEncodeToString(HmacSum(k, Bytes(b)))
        /\ IsLowerHex(Expected(k, Bytes(b)))

\* the signature check of Process let the request through
SignatureAccepted == ran.procCalled /\ ran.procErr.msg # "webhook validation failed"

\* the record the caller sent, member by member (an absent member is zero)
Sent == Unmarshal(req.body).Data
WellFormed == req.body.kind = "json" /\ ~Unmarshal(req.body).err

StorageUnchanged == store = pre.store /\ rtdb = pre.rtdb

\* the steps Process ran, in order
ProcessSteps ==
    LET i == CHOOSE j \in 1..Len(ran.steps) : ran.steps[j] = "Process"
    IN  SubSeq(ran.steps, i + 1, Len(ran.steps))

Pipeline == <<"Validate", "Unmarshal", "validateAnalyticsRecord", "Write">>

IsPrefixOf(x, y) == Len(x) <= Len(y) /\ SubSeq(y, 1, Len(x)) = x

\* the nine record members of a stored document
RecordMembers == StringMembers \cup NumberMembers
RecordPart(data) == [f \in RecordMembers |-> data[f]]

\* C1: Validate succeeds exactly when the signature is the lowercase hex
\* HMAC of the payload under the configured secret; every other string,
\* the empty one included, fails with the "invalid signature" error.
C1_ValidateExactlyHmacHex ==
    Served =>
      LET hex == SignedHex
      IN  /\ ExpectedIsHmacHex
          /\ Validate(secret, Bytes(req.body), req.header) <=> (req.header = hex)
          /\ ~Validate(secret, Bytes(req.body), <<>>)
          /\ ran.procCalled =>
               /\ SignatureAccepted <=> (ran.procSig = hex)
               /\ SignatureAccepted => IsLowerHex(ran.procSig) /\ ran.procSig # <<>>
               /\ ~SignatureAccepted =>
                    ran.procErr = [msg |-> "webhook validation failed",
                                   cause |-> "invalid signature"]

\* a signature equal to the hex HMAC was accepted by Process
C1_Witness ==
    /\ Served
    /\ ran.procCalled
    /\ ran.procSig = HexOfBody
    /\ SignatureAccepted

\* C2: a correctly signed payload whose record has an empty requestId, an
\* empty query or a zero timestamp makes Process return an error, and the
\* writer's Write is not invoked for that request.
C2_InvalidRecordNeverWritten ==
    (/\ Served
     /\ ran.procCalled
     /\ ran.procSig = SignedHex
     /\ WellFormed
     /\ Sent.requestId = "" \/ Sent.query = "" \/ Sent.timestamp = 0)
    => /\ ran.procErr # NoError
       /\ ran.procErr.msg = "invalid analytics record"
       /\ ran.written = <<>>
       /\ \A i \in 1..Len(ran.steps) : ran.steps[i] # "Write"
       /\ StorageUnchanged

\* a correctly signed record whose only fault is the zero timestamp was refused
C2_Witness ==
    /\ Served
    /\ ran.procCalled
    /\ ran.procSig = SignedHex
    /\ WellFormed
    /\ Sent.requestId # "" /\ Sent.query # "" /\ Sent.timestamp = 0
    /\ ran.procErr.cause = "timestamp is required"

\* C3: with the Firestore writer the store holds at most one document per
\* requestId, and it holds the member values of the last delivery of that
\* requestId that completed; deliveries of one requestId with different
\* payloads never leave two documents.
C3_OneDocumentPerRequestId ==
    UsesFirestore(variant) =>
      /\ \A d1, d2 \in store :
           (d1.id = d2.id \/ d1.data.requestId = d2.data.requestId) => d1 = d2
      /\ \A h \in delivered :
           \E d \in store : d.id = h.id /\ RecordPart(d.data) = h.rec
      /\ \A d \in store : \E h \in delivered : h.id = d.id

\* a second delivery of a requestId, with another payload, has just replaced
\* the document of the first
C3_Witness ==
    /\ UsesFirestore(variant)
    /\ Served
    /\ resp.status = 200
    /\ \E d \in pre.store : d.id = Sent.requestId /\ RecordPart(d.data) # Sent
    /\ Cardinality({d \in store : d.id = Sent.requestId}) = 1

\* C4: a well-formed, correctly signed payload with all required members
\* causes exactly one storage write in its request; the nine record members
\* written equal the members sent, and a non-zero receivedAt is added.
C4_ValidPayloadWrittenOnce ==
    (/\ Served
     /\ ran.procCalled
     /\ ran.procSig = SignedHex
     /\ WellFormed
     /\ Sent.requestId # "" /\ Sent.query # "" /\ Sent.timestamp # 0)
    => /\ Len(ran.written) = 1
       /\ Len(SelectSeq(ran.steps, LAMBDA x : x = "Write")) = 1
       /\ DOMAIN ran.written[1].data = RecordMembers \cup {"receivedAt"}
       /\ \A f \in StringMembers : ran.written[1].data[f] = GetStr(req.body.data, f)
       /\ \A f \in NumberMembers : ran.written[1].data[f] = GetNum(req.body.data, f)
       /\ ran.written[1].data.receivedAt # 0
       /\ UsesFirestore(variant) => ran.written[1].id = Sent.requestId
       /\ setOk =>
            /\ resp.status = 200
            /\ UsesFirestore(variant) => ran.written[1] \in store
            /\ ~UsesFirestore(variant) =>
                 /\ Len(rtdb) = Len(pre.rtdb) + 1
                 /\ rtdb[Len(rtdb)].data = ran.written[1].data

\* a valid delivery was written and answered 200
C4_Witness ==
    /\ Served
    /\ ran.procSig = SignedHex
    /\ WellFormed
    /\ Len(ran.written) = 1
    /\ resp.status = 200

\* C5: Process runs signature check, JSON decoding, field validation and
\* write in that order and stops at the first failure: with a wrong
\* signature nothing is decoded, validated or written even for a well-formed
\* payload, and with malformed JSON neither validation nor the write runs.
C5_PipelineOrder ==
    (Served /\ ran.procCalled) =>
      /\ ProcessSteps # <<>>
      /\ IsPrefixOf(ProcessSteps, Pipeline)
      /\ (ran.procErr = NoError) <=> (ProcessSteps = Pipeline /\ setOk)
      /\ ran.procSig # SignedHex =>
           /\ ProcessSteps = <<"Validate">>
           /\ ran.procErr.msg = "webhook validation failed"
           /\ ran.written = <<>>
           /\ StorageUnchanged
      /\ (ran.procSig = SignedHex /\ ~WellFormed) =>
           /\ ProcessSteps = <<"Validate", "Unmarshal">>
           /\ ran.procErr.msg = "failed to parse webhook"
           /\ ran.written = <<>>
           /\ StorageUnchanged

\* a well-formed and valid payload with a wrong signature stopped at the
\* signature check
C5_Witness ==
    /\ Served
    /\ ran.procCalled
    /\ ran.procSig # SignedHex
    /\ WellFormed
    /\ validateAnalyticsRecord(Sent) = ""
    /\ ProcessSteps = <<"Validate">>

\* C6: every request that reaches the processor and fails gets one and the
\* same response, status 401 with the same body, whatever failed: the
\* signature, the decoding, the validation or the write.
C6_FailuresUndifferentiated ==
    (Served /\ ran.procCalled /\ ran.procErr # NoError) =>
      /\ ran.procErr.msg \in {"webhook validation failed", "failed to parse webhook",
                              "invalid analytics record", "failed to store analytics"}
      /\ resp = [status      |-> 401,
                 body        |-> "Failed to process webhook\n",
                 contentType |-> "text/plain; charset=utf-8",
                 retryAfter  |-> ""]

\* a failed storage write was answered 401
C6_Witness ==
    /\ Served
    /\ ran.procCalled
    /\ ran.procErr.msg = "failed to store analytics"
    /\ resp.status = 401

\* C7: the answer is 200 with Content-Type application/json and the fixed
\* acknowledgment body exactly when Process returned no error; on every
\* other path the status is not 200.
C7_SuccessResponse ==
    Served =>
      /\ (resp.status = 200) <=> (ran.procCalled /\ ran.procErr = NoError)
      /\ (ran.procCalled /\ ran.procErr = NoError) =>
           resp = [status      |-> 200,
                   body        |-> "{\"success\":true,\"status\":\"ok\"}",
                   contentType |-> "application/json",
                   retryAfter  |-> ""]

\* a request was processed without error and answered 200
C7_Witness ==
    /\ Served
    /\ ran.procCalled
    /\ ran.procErr = NoError
    /\ resp.status = 200

\* C8 as stated: a POST without the signature header is answered 400, the
\* processor is not invoked and nothing is written, whatever the body.
C8_MissingSignatureAlways400 ==
    (Served /\ req.method = "POST" /\ req.header = <<>>) =>
      /\ resp.status = 400
      /\ ~ran.procCalled
      /\ ran.written = <<>>
      /\ StorageUnchanged

\* C8 amended: a POST without the signature header never reaches the
\* processor and writes nothing; it is answered 400, unless the deployment
\* has a token bucket and the bucket is empty, and then it is answered 429.
C8_MissingSignatureRejected ==
    (Served /\ req.method = "POST" /\ req.header = <<>>) =>
      /\ ~ran.procCalled
      /\ ran.written = <<>>
      /\ StorageUnchanged
      /\ resp.status = IF HasRateLimiter(variant) /\ pre.tokens = 0 THEN 429 ELSE 400

\* a POST with a valid body and no signature header was answered 400
C8_Witness ==
    /\ Served
    /\ req.method = "POST"
    /\ req.header = <<>>
    /\ WellFormed
    /\ validateAnalyticsRecord(Sent) = ""
    /\ resp.status = 400
    /\ ~ran.procCalled

\* C9: in the deployments without a token bucket every request whose
\* method is not POST is answered 405, the processor is not invoked and
\* nothing is written, whatever the headers and the body.
C9_WrongMethod405 ==
    (Served /\ ~HasRateLimiter(variant) /\ req.method # "POST") =>
      /\ resp.status = 405
      /\ ~ran.procCalled
      /\ ran.written = <<>>
      /\ StorageUnchanged

\* a correctly signed valid delivery sent with GET was answered 405
C9_Witness ==
    /\ Served
    /\ ~HasRateLimiter(variant)
    /\ req.method = "GET"
    /\ req.header = SignedHex
    /\ WellFormed
    /\ validateAnalyticsRecord(Sent) = ""
    /\ resp.status = 405

\* what function.go would have done with the served request had it carried
\* the bare hex signature, from the same state
BareOutcome ==
    Handle(variant, secret, pre, [req EXCEPT !.header = SignedHex], now, setOk)

\* C10: in function.go a request signed "sha256=" + hex HMAC is handled
\* exactly like the same request with the bare hex: the processor sees the
\* bare hex, response, write and state are the same, and a valid delivery
\* that is admitted and stored gets 200 and one write.
C10_PrefixStripped ==
    (Served /\ variant = "function" /\ req.header = Sha256Prefix \o SignedHex) =>
      LET bare == BareOutcome
      IN  /\ resp = bare.resp
          /\ ran = bare.ran
          /\ store = bare.store
          /\ tokens = bare.tokens
          /\ ran.procCalled => ran.procSig = SignedHex /\ SignatureAccepted
          /\ (/\ pre.tokens >= 1
              /\ req.method = "POST"
              /\ WellFormed
              /\ validateAnalyticsRecord(Sent) = ""
              /\ setOk)
             => /\ resp.status = 200
                /\ Len(ran.written) = 1
                /\ bare.resp.status = 200
                /\ Len(bare.ran.written) = 1

\* a valid delivery signed with the prefix was answered 200 and written
C10_Witness ==
    /\ Served
    /\ variant = "function"
    /\ req.header = Sha256Prefix \o SignedHex
    /\ resp.status = 200
    /\ Len(ran.written) = 1

\* C11: in the deployments without a token bucket a valid delivery signed
\* "sha256=" + hex HMAC is accepted with 200 like the one with the bare hex:
\* the handler hands the bare hex to the processor.
C11_PrefixStrippedWithoutLimiter ==
    (/\ Served
     /\ ~HasRateLimiter(variant)
     /\ req.method = "POST"
     /\ req.header = Sha256Prefix \o SignedHex
     /\ WellFormed
     /\ validateAnalyticsRecord(Sent) = ""
     /\ setOk)
    => /\ ran.procCalled
       /\ ran.procSig = SignedHex
       /\ resp.status = 200
       /\ resp = BareOutcome.resp

\* C12: in the deployment with a token bucket the bucket is asked first, and
\* a request that meets an empty bucket is answered 429 at once whatever its
\* method, header and body: the body is not read, the processor is not
\* invoked, nothing is written and no token is owed for it.
C12_LimiterConsultedFirst ==
    (Served /\ HasRateLimiter(variant)) =>
      /\ ran.steps # <<>> /\ ran.steps[1] = "Allow"
      /\ pre.tokens = 0 =>
           /\ resp.status = 429
           /\ resp.retryAfter = "1"
           /\ ran.steps = <<"Allow">>
           /\ ~ran.procCalled
           /\ ran.written = <<>>
           /\ ran.errorLogs = <<>>
           /\ StorageUnchanged
           /\ tokens = 0

\* a correctly signed valid POST met an empty bucket and was answered 429
C12_Witness ==
    /\ Served
    /\ HasRateLimiter(variant)
    /\ pre.tokens = 0
    /\ req.method = "POST"
    /\ req.header = SignedHex
    /\ WellFormed
    /\ validateAnalyticsRecord(Sent) = ""
    /\ resp.status = 429
    /\ ran.steps = <<"Allow">>

\* a request has been admitted by the token bucket
Admitted == resp.status # 429

\* C13: the bucket starts full with 20 tokens; of the requests that follow a
\* full bucket with no token added in between exactly the first 20 are
\* admitted and every later one is answered 429; a step that adds a token
\* leaves at least one, and a request that meets a token is admitted and
\* takes it.
C13_BurstThenRefill ==
    /\ []((HasRateLimiter(variant) /\ arrivals = 0 /\ ~refilled) => tokens = 20)
    /\ [](Served /\ HasRateLimiter(variant) /\ ~refilled =>
            /\ Admitted <=> arrivals <= 20
            /\ Admitted => tokens = 20 - arrivals
            /\ ~Admitted => tokens = 0 /\ pre.tokens = 0)
    /\ [][(HasRateLimiter(variant) /\ tokens' > tokens) =>
            /\ pc = "idle" /\ pc' = "idle"
            /\ tokens' >= 1 /\ tokens' <= 20]_vars
    /\ [][(HasRateLimiter(variant) /\ pc = "idle" /\ pc' = "served" /\ tokens >= 1) =>
            /\ resp'.status # 429
            /\ tokens' = tokens - 1]_vars

\* the 21st request after a full bucket, no token added, was answered 429
C13_Witness ==
    /\ Served
    /\ HasRateLimiter(variant)
    /\ ~refilled
    /\ arrivals = 21
    /\ resp.status = 429

\* C14 as stated: in the deployment with a token bucket a request whose
\* method is not POST is answered 405 and writes nothing in every state of
\* the bucket, the method alone deciding the answer.
C14_WrongMethodAlways405 ==
    (Served /\ HasRateLimiter(variant) /\ req.method # "POST") =>
      /\ resp.status = 405
      /\ ~ran.procCalled
      /\ ran.written = <<>>
      /\ StorageUnchanged

\* C14 amended: in the deployment with a token bucket a request whose method
\* is not POST never reaches the processor and writes nothing in every state
\* of the bucket; the method check follows the bucket, so the answer is 405
\* when the bucket holds a token and 429 when it is empty.
C14_WrongMethodRejected ==
    (Served /\ HasRateLimiter(variant) /\ req.method # "POST") =>
      /\ ~ran.procCalled
      /\ ran.written = <<>>
      /\ StorageUnchanged
      /\ resp.status = IF pre.tokens = 0 THEN 429 ELSE 405
      /\ ran.steps = IF pre.tokens = 0 THEN <<"Allow">> ELSE <<"Allow", "Method">>

\* a correctly signed valid delivery sent with GET to the deployment with a
\* token bucket was answered 405
C14_Witness ==
    /\ Served
    /\ HasRateLimiter(variant)
    /\ req.method = "GET"
    /\ req.header = SignedHex
    /\ WellFormed
    /\ validateAnalyticsRecord(Sent) = ""
    /\ pre.tokens >= 1
    /\ resp.status = 405
    /\ StorageUnchanged

\* the served request delivered, with success, a record that the Firestore
\* collection already held under the same requestId with the same members
Redelivered ==
    /\ Served
    /\ UsesFirestore(variant)
    /\ resp.status = 200
    /\ \E d \in pre.store : d.id = Sent.requestId /\ RecordPart(d.data) = Sent

\* the document stored under the requestId of the served request
DocOf(coll) == CHOOSE d \in coll : d.id = Sent.requestId

\* C15 as stated: delivering a record that is already stored under its
\* requestId leaves the stored state as it was after the first delivery,
\* the document identical in every field.
C15_RedeliveryLeavesDocumentIdentical ==
    Redelivered => store = pre.store

\* C15 amended: delivering a record that is already stored under its
\* requestId leaves one document at that key with the same nine record
\* members and leaves every other document alone; receivedAt is the time of
\* the last write, so the document is the same in every field only when
\* both writes fall in the same second.
C15_RedeliveryKeepsRecordMembers ==
    Redelivered =>
      /\ Cardinality({d \in store : d.id = Sent.requestId}) = 1
      /\ RecordPart(DocOf(store).data) = RecordPart(DocOf(pre.store).data)
      /\ DocOf(store).data.receivedAt = now
      /\ DocOf(store).data.receivedAt >= DocOf(pre.store).data.receivedAt
      /\ {d \in store : d.id # Sent.requestId} = {d \in pre.store : d.id # Sent.requestId}
      /\ (store = pre.store) <=> (DocOf(pre.store).data.receivedAt = now)

\* a record stored in an earlier second was delivered again
C15_Witness ==
    /\ Redelivered
    /\ DocOf(pre.store).data.receivedAt < now
    /\ RecordPart(DocOf(store).data) = Sent

\* the goroutine's request has been answered 200, its write applied
Stored(p) == procs[p].pc = "done" /\ procs[p].resp.status = 200

\* the record the goroutine's request carried
SentBy(p) == Unmarshal(procs[p].req.body).Data

\* the goroutine whose write to the key was applied last
LastWriter(id) ==
    LET at == {i \in 1..Len(writeOrder) : procs[writeOrder[i]].doc.id = id}
    IN  writeOrder[CHOOSE i \in at : \A j \in at : j <= i]

\* the position of a goroutine in an order
PositionIn(order, p) == CHOOSE i \in 1..Len(order) : order[i] = p

\* two successful deliveries of one requestId with different members
SameKeyRace(p, q) ==
    /\ p # q
    /\ Stored(p) /\ Stored(q)
    /\ SentBy(p).requestId = SentBy(q).requestId
    /\ SentBy(p) # SentBy(q)

\* C16: with the Firestore writer and requests served concurrently, the
\* store holds one document per requestId, every document is as a whole the
\* document of one delivery (never a mix of two), and after two successful
\* deliveries of one requestId with different members the document is that
\* of the delivery whose write was applied last of all.
C16_ConcurrentSameKeyLastWriteWins ==
    UsesFirestore(variant) =>
      /\ \A d1, d2 \in store : d1.id = d2.id => d1 = d2
      /\ \A d \in store :
           /\ \E i \in 1..Len(writeOrder) : procs[writeOrder[i]].doc.id = d.id
           /\ Stored(LastWriter(d.id))
           /\ d = procs[LastWriter(d.id)].doc
           /\ RecordPart(d.data) = SentBy(LastWriter(d.id))
      /\ \A p, q \in Procs :
           (SameKeyRace(p, q) /\ LastWriter(SentBy(q).requestId) = q) =>
             /\ Cardinality({d \in store : d.id = SentBy(q).requestId}) = 1
             /\ \A d \in store :
                  d.id = SentBy(q).requestId =>
                    RecordPart(d.data) = SentBy(q) /\ RecordPart(d.data) # SentBy(p)

\* of two racing deliveries of one requestId the one that arrived first was
\* written last, and its document is the one that remains
C16_Witness ==
    /\ UsesFirestore(variant)
    /\ \E p, q \in Procs :
         /\ SameKeyRace(p, q)
         /\ PositionIn(arrivalOrder, p) < PositionIn(arrivalOrder, q)
         /\ PositionIn(writeOrder, q) < PositionIn(writeOrder, p)
         /\ \E d \in store : d.id = SentBy(p).requestId /\ RecordPart(d.data) = SentBy(p)

\* the served request is a POST whose body arrived and whose signature
\* header is present and is not the hex HMAC of the body, bare or prefixed
IncorrectSignature ==
    /\ Served
    /\ req.method = "POST"
    /\ req.body.kind # "readerr"
    /\ req.header # <<>>
    /\ req.header # SignedHex
    /\ req.header # Sha256Prefix \o SignedHex

\* C17 as stated: a POST with an incorrect signature is answered 401, writes
\* nothing, and leaves exactly one Error entry on the logger that processor
\* and handler share.
C17_WrongSignatureOneErrorLog ==
    IncorrectSignature =>
      /\ resp.status = 401
      /\ ran.written = <<>>
      /\ StorageUnchanged
      /\ Len(ran.errorLogs) = 1

\* C17 amended: a POST with an incorrect signature that the token bucket
\* admits is answered 401, writes nothing, and leaves exactly two Error
\* entries: the processor's at the signature check and the handler's for
\* the failed Process call; when the bucket is empty it is answered 429 and
\* leaves no Error entry.
C17_WrongSignatureTwoErrorLogs ==
    IncorrectSignature =>
      /\ ran.written = <<>>
      /\ StorageUnchanged
      /\ ~(HasRateLimiter(variant) /\ pre.tokens = 0) =>
           /\ resp.status = 401
           /\ ran.errorLogs = <<Err("webhook validation failed", "invalid signature"),
                                Err("failed to process webhook", "webhook validation failed")>>
           /\ ProcessSteps = <<"Validate">>
      /\ (HasRateLimiter(variant) /\ pre.tokens = 0) =>
           /\ resp.status = 429
           /\ ran.errorLogs = <<>>

\* a valid delivery signed with a foreign key was answered 401 with the two
\* Error entries
C17_Witness ==
    /\ IncorrectSignature
    /\ req.header = HmacHex(ForeignSecret, req.body)
    /\ WellFormed
    /\ validateAnalyticsRecord(Sent) = ""
    /\ resp.status = 401
    /\ Len(ran.errorLogs) = 2

\* C18: the documented manual test, a correctly signed POST of a payload
\* with envelope, requestId, query and the descriptive members but without
\* data.timestamp, is answered 200 and its record is stored under its
\* requestId.
C18_ManualTestAccepted ==
    (/\ Served
     /\ req.method = "POST"
     /\ req.body = ManualTestBody
     /\ ran.procCalled
     /\ ran.procSig = SignedHex)
    => /\ resp.status = 200
       /\ Len(ran.written) = 1
       /\ UsesFirestore(variant) =>
            \E d \in store : d.id = "req_1" /\ d.data.requestId = "req_1"
       /\ ~UsesFirestore(variant) =>
            Len(rtdb) = Len(pre.rtdb) + 1 /\ rtdb[Len(rtdb)].data.requestId = "req_1"

\* C19: LoadConfig of internal/config returns a configuration whenever
\* WEBHOOK_SECRET is set, FIREBASE_DATABASE_URL set or not, and fails only
\* when WEBHOOK_SECRET is empty.
C19_LoadConfigNeedsSecretOnly ==
    (variant = "main" /\ pc # "start") =>
      /\ (configErr = "") <=> (environ.WEBHOOK_SECRET # <<>>)
      /\ configErr = "" => config.WebhookSecret = environ.WEBHOOK_SECRET /\ pc = "idle"

\* the documents stored under other keys than that of the served request
Others(coll) == {d \in coll : d.id # Sent.requestId}

\* C20: a request answered 400, 401, 405 or 429 leaves every stored
\* document as it was; a request answered 200 changes only the document
\* whose key is its data.requestId, all other documents keep their content
\* (with the Realtime Database writer: one child is added, the others stay).
C20_FrameOfARequest ==
    Served =>
      /\ resp.status \in {200, 400, 401, 405, 429}
      /\ resp.status \in {400, 401, 405, 429} => StorageUnchanged
      /\ (resp.status = 200 /\ UsesFirestore(variant)) =>
           /\ Others(store) = Others(pre.store)
           /\ Cardinality(store \ Others(store)) = 1
           /\ rtdb = pre.rtdb
      /\ (resp.status = 200 /\ ~UsesFirestore(variant)) =>
           /\ store = pre.store
           /\ Len(rtdb) = Len(pre.rtdb) + 1
           /\ SubSeq(rtdb, 1, Len(pre.rtdb)) = pre.rtdb

\* a delivery was stored while a document of another requestId was there,
\* and that document is still there
C20_Witness ==
    /\ Served
    /\ UsesFirestore(variant)
    /\ resp.status = 200
    /\ store # pre.store
    /\ Others(pre.store) # {}
    /\ Others(store) = Others(pre.store)

\* the descriptive members of a record, which a delivery may leave out
OptionalMembers == RecordMembers \ {"requestId", "query", "timestamp"}

\* the zero value of a record member
ZeroOf(f) == IF f \in StringMembers THEN "" ELSE 0

\* the served request was stored by the Firestore writer
FirestoreWritten == Served /\ UsesFirestore(variant) /\ resp.status = 200

\* C21: a Firestore write for a key replaces the whole document: the nine
\* record members and receivedAt are those of the new delivery, a
\* descriptive member the delivery leaves out is stored as its zero value
\* whatever the earlier document held, and nothing of the earlier document
\* is kept.
C21_WriteReplacesWholeDocument ==
    FirestoreWritten =>
      /\ Cardinality({d \in store : d.id = Sent.requestId}) = 1
      /\ DOMAIN DocOf(store).data = RecordMembers \cup {"receivedAt"}
      /\ RecordPart(DocOf(store).data) = Sent
      /\ DocOf(store).data.receivedAt = now
      /\ \A f \in OptionalMembers :
           f \notin DOMAIN req.body.data =>
             DocOf(store).data[f] = ZeroOf(f)

\* a delivery without the descriptive members replaced a document that had
\* them: they are stored as zero values
C21_Witness ==
    /\ FirestoreWritten
    /\ \E d \in pre.store :
         /\ d.id = Sent.requestId
         /\ \A f \in OptionalMembers : d.data[f] # ZeroOf(f)
    /\ \A f \in OptionalMembers : f \notin DOMAIN req.body.data
    /\ \A f \in OptionalMembers : DocOf(store).data[f] = ZeroOf(f)

\* C22: whatever requests the Firestore pipeline has served, every stored
\* document has a non-empty requestId, a non-empty query, a timestamp and a
\* receivedAt other than 0, and lies at the key equal to its requestId.
C22_StoredDocumentsWellFormed ==
    UsesFirestore(variant) =>
      \A d \in store :
        /\ d.data.requestId # ""
        /\ d.data.query # ""
        /\ d.data.timestamp # 0
        /\ d.data.receivedAt # 0
        /\ d.id = d.data.requestId

\* two documents are stored and a signed delivery with an empty required
\* member has just been turned away
C22_Witness ==
    /\ Served
    /\ UsesFirestore(variant)
    /\ Cardinality(pre.store) = 2
    /\ WellFormed
    /\ validateAnalyticsRecord(Sent) # ""
    /\ ran.procErr.msg = "invalid analytics record"
    /\ store = pre.store

\* the step of Process that fails for the served request, "" when none does:
\* the signature check, the parse, the validation of the record, the write
FailingStep ==
    IF ~Validate(secret, Bytes(req.body), ran.procSig) THEN "Validate"
    ELSE IF Unmarshal(req.body).err THEN "Unmarshal"
    ELSE IF validateAnalyticsRecord(Sent) # "" THEN "validateAnalyticsRecord"
    ELSE IF ~setOk THEN "Write"
    ELSE ""

\* the cause of the failure of a step
CauseOf(step) ==
    CASE step = "Validate"                -> "invalid signature"
      [] step = "Unmarshal"               -> "json error"
      [] step = "validateAnalyticsRecord" -> validateAnalyticsRecord(Sent)
      [] step = "Write"                   -> IF UsesFirestore(variant)
                                             THEN "failed to write analytics to Firestore"
                                             ELSE "failed to write analytics"
      [] OTHER                            -> ""

\* C23: when a step of Process fails (signature, parse, validation, write),
\* Process has written an Error log carrying the cause before it returns,
\* the error it returns is not nil and wraps that cause, and the failed
\* step is the last one it ran; Process returns nil only when no step failed.
C23_ProcessFailuresLoggedAndWrapped ==
    (Served /\ ran.procCalled) =>
      \A step \in {FailingStep} :
          /\ (ran.procErr = NoError) <=> (step = "")
          /\ step # "" =>
                /\ ran.procErr.msg # ""
                /\ ran.procErr.cause = CauseOf(step)
                /\ ran.procErr.cause # ""
                /\ Len(ran.errorLogs) >= 1
                /\ ran.errorLogs[1].cause = CauseOf(step)
                /\ ProcessSteps[Len(ProcessSteps)] = step
                /\ resp.status # 200
                /\ StorageUnchanged
          /\ step = "" => ran.errorLogs = <<>> /\ ProcessSteps = Pipeline

\* the write of a valid, correctly signed delivery failed at the backend
C23_Witness ==
    /\ Served
    /\ ran.procCalled
    /\ FailingStep = "Write"
    /\ ran.procErr = Err("failed to store analytics", CauseOf("Write"))
    /\ ran.errorLogs[1] = Err("failed to write analytics", CauseOf("Write"))

\* the required members in the order of the checks, and those of them the
\* served record lacks (empty string, 0)
RequiredOrder == <<"requestId", "query", "timestamp">>
MissingRequired == {i \in 1..Len(RequiredOrder) : Sent[RequiredOrder[i]] = ZeroOf(RequiredOrder[i])}

RequiredMessage(f) ==
    CASE f = "requestId" -> "requestId is required"
      [] f = "query"     -> "query is required"
      [] f = "timestamp" -> "timestamp is required"

\* the field validation ran for the served request
FieldsValidated == Served /\ ran.procCalled /\ Len(ProcessSteps) >= 3

\* C24: field validation checks requestId, then query, then timestamp and
\* reports the first failing member only: a record that lacks several
\* required members is reported for the earliest of them in that order, and
\* the validation passes exactly when requestId and query are non-empty and
\* timestamp is not 0.
C24_FirstFailingFieldReported ==
    FieldsValidated =>
      LET passed == ran.procErr.msg # "invalid analytics record"
      IN  /\ ProcessSteps[3] = "validateAnalyticsRecord"
          /\ passed <=> (Sent.requestId # "" /\ Sent.query # "" /\ Sent.timestamp # 0)
          /\ passed <=> (MissingRequired = {})
          /\ ~passed =>
                LET first == CHOOSE i \in MissingRequired : \A j \in MissingRequired : i <= j
                IN  /\ ran.procErr.cause = RequiredMessage(RequiredOrder[first])
                    /\ ran.errorLogs[1] = Err("analytics record validation failed",
                                              RequiredMessage(RequiredOrder[first]))
                    /\ Len(ProcessSteps) = 3

\* a signed record that lacks all three required members was reported for
\* its requestId
C24_Witness ==
    /\ FieldsValidated
    /\ MissingRequired = {1, 2, 3}
    /\ ran.procErr = Err("invalid analytics record", "requestId is required")

\* the goroutines that are between Lock and Unlock of the bucket's mutex
InAllow == {p \in Procs : callers[p].pc # "idle"}

\* C25: with several goroutines in RateLimiter.Allow at the same time, the
\* check and the take of a token are one step as far as the others can
\* tell: one goroutine at a time is past Lock, the calls that returned true
\* are never more than the tokens made available, the tokens are what was
\* made available less what was handed out, never below 0 and never above
\* the burst.
C25_CheckAndTakeAtomic ==
    /\ Cardinality(InAllow) <= 1
    /\ \A p \in InAllow : mu = p
    /\ admitted <= supplied
    /\ tokens = supplied - admitted
    /\ tokens >= 0
    /\ tokens <= Burst
    /\ \A p \in Procs : callers[p].pc = "checked" => callers[p].seen = tokens + callers[p].gain

\* two goroutines asked for the last token of the burst: one call returned
\* true, the other false
C25_Witness ==
    /\ admitted = Burst
    /\ supplied = Burst
    /\ tokens = 0
    /\ mu = 0
    /\ \E p, q \in Procs :
         /\ callers[p] = [IdleCaller EXCEPT !.res = "admitted"]
         /\ callers[q] = [IdleCaller EXCEPT !.res = "rejected"]

\* the children of analytics/live that hold the requestId of the served
\* request
EntriesOf(list) == {i \in 1..Len(list) : list[i].data.requestId = Sent.requestId}

\* C26: with the Realtime Database repository every successful Write adds
\* a child under a key no other child has and leaves the children that
\* were there, so each successful delivery of a requestId adds one entry
\* for it (n deliveries leave n entries); a request that is not answered
\* 200 adds none.  The entry point that wires this repository does not
\* keep one record per requestId.
C26_PushAppendsPerDelivery ==
    ~UsesFirestore(variant) =>
      /\ store = {}
      /\ \A i, j \in 1..Len(rtdb) : rtdb[i].id = rtdb[j].id => i = j
      /\ (Served /\ resp.status = 200) =>
           /\ Len(rtdb) = Len(pre.rtdb) + 1
           /\ SubSeq(rtdb, 1, Len(pre.rtdb)) = pre.rtdb
           /\ rtdb[Len(rtdb)].data = DocData(Sent, now * 1000)
           /\ Cardinality(EntriesOf(rtdb)) = Cardinality(EntriesOf(pre.rtdb)) + 1
      /\ (Served /\ resp.status # 200) => rtdb = pre.rtdb

\* the same record was delivered twice and is stored twice
C26_Witness ==
    /\ Served
    /\ ~UsesFirestore(variant)
    /\ resp.status = 200
    /\ Len(rtdb) = 2
    /\ rtdb[1].data.requestId = rtdb[2].data.requestId
    /\ RecordPart(rtdb[1].data) = RecordPart(rtdb[2].data)
    /\ rtdb[1].id # rtdb[2].id

\* the Info entries of the served request that report a success
SuccessEvents ==
    {i \in 1..Len(ran.infoLogs) : ran.infoLogs[i].msg = "webhook processed successfully"}

\* the write of the served request was applied
WriteApplied ==
    /\ Len(ran.written) = 1
    /\ setOk
    /\ ProcessSteps = Pipeline
    /\ IF UsesFirestore(variant)
       THEN [id |-> Sent.requestId, data |-> DocData(Sent, now)] \in store
       ELSE Len(rtdb) = Len(pre.rtdb) + 1 /\ RecordPart(rtdb[Len(rtdb)].data) = Sent

\* C27: a Process that succeeds writes exactly one Info entry
\* "webhook processed successfully" with the requestId of the record, and
\* only when the write has been applied; a Process that fails at any step,
\* and a request that never reaches Process, writes no such entry.
C27_OneSuccessEventAfterWrite ==
    Served =>
      \A events \in {SuccessEvents} :
        /\ ran.procCalled =>
             IF FailingStep = ""
             THEN /\ Cardinality(events) = 1
                  /\ \A i \in events : ran.infoLogs[i].requestId = Sent.requestId
                  /\ ran.procErr = NoError
             ELSE events = {}
        /\ ~ran.procCalled => events = {}
        /\ events # {} => WriteApplied

\* a delivery was stored and reported with its requestId
C27_Witness ==
    /\ Served
    /\ ran.procCalled
    /\ WriteApplied
    /\ ran.infoLogs = <<[msg |-> "webhook processed successfully", requestId |-> "req_2"]>>
    /\ Sent.requestId = "req_2"

\* the served request reached the storage: a write was attempted or the
\* stored state differs from the one the request met
CausedWrite == Served /\ (ran.written # <<>> \/ ~StorageUnchanged)

\* C28: in every deployment a request reaches the storage only when the
\* signature it carries (the header, in function.go less the "sha256="
\* prefix) is the hex HMAC of its body bytes under the configured secret;
\* a request whose signature is missing, empty or anything else writes
\* nothing.  The storage changes in no other step, so every stored document
\* comes from such a request.
C28_OnlySignedRequestsWrite ==
    /\ Served =>
         LET hex == SignedHex
         IN  /\ CausedWrite =>
                  /\ ran.procCalled
                  /\ ran.procSig = hex
                  /\ req.header = hex
                       \/ (variant = "function" /\ req.header = Sha256Prefix \o hex)
                  /\ req.body.kind = "json"
             /\ req.header \notin {hex, Sha256Prefix \o hex} =>
                  ran.written = <<>> /\ StorageUnchanged /\ resp.status # 200
    /\ \A d \in store : \E h \in delivered : h.id = d.id /\ h.rec = RecordPart(d.data)

\* with documents stored, a valid delivery signed with another key was
\* turned away and the documents are as they were
C28_Witness ==
    /\ Served
    /\ req.header = HmacHex(ForeignSecret, req.body)
    /\ req.method = "POST"
    /\ validateAnalyticsRecord(Sent) = ""
    /\ pre.store # {}
    /\ \A d \in pre.store : d.id # Sent.requestId
    /\ store = pre.store
    /\ resp.status = 401

\* the served request is a valid delivery, correctly signed
ValidDelivery ==
    /\ Served
    /\ req.method = "POST"
    /\ WellFormed
    /\ validateAnalyticsRecord(Sent) = ""
    /\ req.header = SignedHex

\* C29: in the handler with the token bucket every request that is
\* admitted takes one token, whether it is then answered 200, 405, 400 or
\* 401; a rejected request spends its token with nothing stored, and a
\* valid delivery is answered 429 exactly when the requests before it have
\* left no token: after 20 rejected requests with no refill, the valid
\* delivery that follows gets 429.
C29_RejectedRequestsSpendTokens ==
    (Served /\ HasRateLimiter(variant)) =>
      /\ ran.steps[1] = "Allow"
      /\ resp.status \in {200, 400, 401, 405} =>
           pre.tokens >= 1 /\ tokens = pre.tokens - 1
      /\ resp.status \in {400, 401, 405} => StorageUnchanged
      /\ ValidDelivery => (resp.status = 429 <=> pre.tokens = 0)
      /\ (ValidDelivery /\ ~refilled /\ store = {} /\ arrivals = Burst + 1) =>
           resp.status = 429 /\ pre.tokens = 0 /\ tokens = 0

\* the bucket was full, twenty requests were rejected (nothing is stored),
\* no token was added, and the valid delivery that followed got 429
C29_Witness ==
    /\ ValidDelivery
    /\ HasRateLimiter(variant)
    /\ ~refilled
    /\ arrivals = Burst + 1
    /\ store = {}
    /\ delivered = {}
    /\ resp.status = 429
    /\ resp.retryAfter = "1"

\* the served request is a POST of a JSON object, signed with the hex HMAC
\* of its body
SignedPost ==
    /\ Served
    /\ req.method = "POST"
    /\ req.body.kind = "json"
    /\ req.header = SignedHex

\* the bodies that differ from the served one in the envelope members only
EnvelopeTwins ==
    {b \in Bodies : /\ b.kind = "json"
                    /\ b.hasData = req.body.hasData
                    /\ b.data = req.body.data
                    /\ b.env # req.body.env}

\* what the handler does with such a body, correctly signed, in place of
\* the served request
TwinOutcome(b) ==
    Handle(variant, secret, pre,
           [method |-> req.method, header |-> HmacHex(secret, b), body |-> b], now, setOk)

\* the two envelope members decode into WebhookPayload
EnvelopeDecodes(b) ==
    TypeOK(b.env, "eventType", "str") /\ TypeOK(b.env, "timestamp", "num")

\* key and record members of the write a request made, <<>> when it made none
WrittenRecord(written) ==
    [i \in 1..Len(written) |-> [id |-> written[i].id, rec |-> RecordPart(written[i].data)]]

====
